---- MODULE Spec2Model ----
(***************************************************************************)
(* Model of the two CDS ingestion programs of the repository:              *)
(*   - CDSRealTimeScraper (src/cds_live_scraper.py), the archive mode:     *)
(*     slice download -> filter_eur_cds -> process_trades -> save_trades   *)
(*   - DTCCCDSScraper (src/enhanced_dtcc_scraper.py), the API mode:        *)
(*     discover_api_endpoints -> fetch_cds_trades -> parse_trade -> upsert *)
(* The two programs share no state; each has its own specification.        *)
(***************************************************************************)
EXTENDS Integers, Sequences, FiniteSets, Bags, TLC

VARIABLES
    \* ---- archive mode (CDSRealTimeScraper) ----
    arPc,              \* position of run(): the statement about to execute
    processed_trades,  \* self.processed_trades
    df,                \* local df of run()
    eur_cds,           \* local eur_cds of run()
    trades,            \* local trades of run()
    table,             \* rows of cds_trades_live (a bag: the table may hold equal rows)
    tableUnique,       \* whether cds_trades_live has a unique index over the inserted columns
    now,               \* wall clock, in ticks (TicksPerDay to the day)
    restarts,          \* process restarts so far
    returned,          \* history: per identifier, in how many returned batches of this instance it appeared
    arFault,           \* history: stage of run() whose exception ended the loop
    committed,         \* history: identifiers of the batches save_trades of this instance committed
    connected,         \* history: save_trades of this cycle called psycopg2.connect
    \* ---- API mode (DTCCCDSScraper) ----
    apPc,              \* position of run_forever(): the statement about to execute
    endpoints,         \* local endpoints of scrape_cycle()
    tried,             \* iterations of "for ep in endpoints[:2]" begun in this cycle
    data,              \* local data of scrape_cycle()
    all_trades,        \* local all_trades of scrape_cycle()
    sleepSecs,         \* argument of the time.sleep in progress (0: none)
    apOutcome,         \* history: how the latest scrape_cycle() ended
    fetchLog,          \* history: the fetches of this cycle, in order: the endpoint, whether the GET failed, whether it gave records
    batchFrom,         \* history: endpoints whose records went into all_trades
    absorbed,          \* history: index in data of the record whose parse_trade swallowed a KeyboardInterrupt
    sent,              \* history: the batch this cycle gave to upsert
    upsertCalls,       \* history: upsert calls of this cycle
    feed,              \* environment: the records the endpoints currently serve
    feedServed,        \* history: the previous cycle returned after handling exactly this feed
    dataIsRepeat,      \* history: data is the list the previous cycle already handled
    discovery,         \* history: what this cycle's dashboard GET gave: "failed", or a page with "no_match" or "matches"
    stopAt,            \* history: where the KeyboardInterrupt that ended the loop was delivered
    stopRequested,     \* history: a KeyboardInterrupt has been delivered to the process
    \* ---- one call of a function of the programs on one input ----
    fnPc,              \* "idle", or the function that was called
    fnIn,              \* its argument
    fnOut,             \* what it returned
    \* ---- the process ----
    program            \* the script that was started

arVars == <<arPc, processed_trades, df, eur_cds, trades, table, tableUnique,
            now, restarts, returned, arFault, committed, connected>>

apVars == <<apPc, endpoints, tried, data, all_trades, sleepSecs, apOutcome,
            fetchLog, batchFrom, absorbed, sent, upsertCalls, feed, feedServed,
            dataIsRepeat, discovery, stopAt, stopRequested>>

fnVars == <<fnPc, fnIn, fnOut>>

vars == <<arVars, apVars, fnVars, program>>

\* ------------------------------------------------------------------ bounds
MaxRows == 3
MaxRestarts == 1
MaxNow == 1
MaxRecords == 2
MaxElements == 2
TicksPerDay == 2

\* ------------------------------------------------------------ archive mode

\* A value of df: None, or a data frame with its rows.
None == [isNone |-> TRUE, rows |-> <<>>]
DataFrame(rows) == [isNone |-> FALSE, rows |-> rows]

Max(a, b) == IF a >= b THEN a ELSE b
Min(a, b) == IF a <= b THEN a ELSE b

target_entities ==
    [n \in {"VODAFONE GROUP PLC", "DEUTSCHE BANK AG", "BNP PARIBAS SA",
            "BANCO SANTANDER SA", "TELECOM ITALIA SPA", "TOTALENERGIES SE",
            "SHELL PLC", "SIEMENS AG", "BMW AG", "SAP SE"} |->
        CASE n = "VODAFONE GROUP PLC" -> "VODFON"
          [] n = "DEUTSCHE BANK AG" -> "DBKGN"
          [] n = "BNP PARIBAS SA" -> "BNPPR"
          [] n = "BANCO SANTANDER SA" -> "SANES"
          [] n = "TELECOM ITALIA SPA" -> "TITIM"
          [] n = "TOTALENERGIES SE" -> "TOTFP"
          [] n = "SHELL PLC" -> "SHEL"
          [] n = "SIEMENS AG" -> "SIE"
          [] n = "BMW AG" -> "BMW"
          [] n = "SAP SE" -> "SAP"]

\* A date cell of the slice: a parsable date (in days) or text pd.to_datetime rejects.
Date(d) == [tag |-> "date", day |-> d]
BadDate == [tag |-> "text", day |-> 0]

\* The rows the upstream slice can hold.
SliceRows ==
    { [id |-> "D1", asset |-> "CR", ccy |-> "EUR", name |-> "SAP SE", expiry |-> Date(730)],
      [id |-> "D2", asset |-> "CR", ccy |-> "EUR", name |-> "TELECOM ITALIA SPA", expiry |-> Date(100)],
      [id |-> "D3", asset |-> "CR", ccy |-> "EUR", name |-> "BMW AG", expiry |-> BadDate],
      [id |-> "D4", asset |-> "IR", ccy |-> "EUR", name |-> "SAP SE", expiry |-> Date(731)] }

SliceIds == {r.id : r \in SliceRows}

RECURSIVE SeqsUpTo(_, _)
SeqsUpTo(S, n) ==
    IF n = 0 THEN {<<>>}
    ELSE LET shorter == SeqsUpTo(S, n - 1)
         IN shorter \cup {Append(s, x) : s \in {t \in shorter : Len(t) = n - 1}, x \in S}

\* The data frames get_latest_credit_slice can read from a downloaded archive.
Slices == SeqsUpTo(SliceRows, MaxRows)

\* Faulty variant of InSubjectUniverse: the asset class is not looked at.
InSubjectUniverse_any_asset(row) ==
    /\ row.ccy = "EUR"
    /\ row.name \in DOMAIN target_entities

InSubjectUniverse(row) ==
    /\ row.asset = "CR"
    /\ row.ccy = "EUR"
    /\ row.name \in DOMAIN target_entities

filter_eur_cds(frame) ==
    IF frame.isNone \/ frame.rows = <<>> THEN <<>>
    ELSE SelectSeq(frame.rows, InSubjectUniverse)

\* pd.to_datetime raises on text that is no date; nothing in process_trades catches it.
NormalizeRaises(row) == row.expiry.tag # "date"

\* (expiry - now).days: the whole days of the difference, rounded down. expiry
\* is a midnight; now has a time of day.
timedelta_days(expiry, nowTick) == (expiry.day * TicksPerDay - nowTick) \div TicksPerDay

\* Faulty variant of years_to_maturity: no lower limit of one year.
years_unfloored(expiry, nowTick) == timedelta_days(expiry, nowTick) \div 365

years_to_maturity(expiry, nowTick) == Max(1, timedelta_days(expiry, nowTick) \div 365)

\* The dict process_trades appends for one row. src is history: the row's
\* Dissemination Identifier, which the code does not put in the dict.
Normalize(row, nowTick) ==
    LET ticker == IF row.name \in DOMAIN target_entities
                  THEN target_entities[row.name] ELSE row.name
        years == years_to_maturity(row.expiry, nowTick)
    IN [src |-> row.id,
        instrument |-> <<ticker, "CDS EUR SR", years>>,
        maturity_date |-> row.expiry.day,
        rate_spread |-> years,
        rating_category |-> IF ticker = "TITIM" THEN "HY" ELSE "IG",
        entity_name |-> row.name]

\* The loop of process_trades from row i on: processed and self.processed_trades
\* when the loop ends, and whether it ended by an exception.
RECURSIVE process_rows(_, _, _, _, _)
process_rows(frame, i, processed, seen, nowTick) ==
    IF i > Len(frame)
    THEN [processed |-> processed, seen |-> seen, raised |-> FALSE]
    ELSE LET row == frame[i] IN
         IF row.id \in seen
         THEN process_rows(frame, i + 1, processed, seen, nowTick)
         ELSE IF NormalizeRaises(row)
         THEN [processed |-> processed, seen |-> seen, raised |-> TRUE]
         ELSE process_rows(frame, i + 1, Append(processed, Normalize(row, nowTick)),
                           seen \cup {row.id}, nowTick)

process_trades(frame, seen, nowTick) == process_rows(frame, 1, <<>>, seen, nowTick)

\* The inserted columns of a trade (everything but the history field).
Columns(t) == [instrument |-> t.instrument, maturity_date |-> t.maturity_date,
               rate_spread |-> t.rate_spread, rating_category |-> t.rating_category,
               entity_name |-> t.entity_name]

\* INSERT ... ON CONFLICT DO NOTHING of one trade: skipped only when a unique
\* index of the table rejects the row.
Insert(tbl, t, unique) ==
    IF unique /\ \E r \in BagToSet(tbl) : Columns(r) = Columns(t)
    THEN tbl
    ELSE tbl (+) SetToBag({t})

RECURSIVE InsertAll(_, _, _)
InsertAll(tbl, ts, unique) ==
    IF ts = <<>> THEN tbl
    ELSE InsertAll(Insert(tbl, Head(ts), unique), Tail(ts), unique)

\* Faulty variant of Unhandled: the loop logs the exception and sleeps.
Swallowed == "sleep"

\* Where an exception of a stage leaves run(): nothing in run() or under it
\* catches, the coroutine ends.
Unhandled == "dead"

\* Faulty variant of SkipsSave: save_trades connects whatever the batch.
SkipsSave_never(batch) == FALSE

\* "if not trades: ... return" of save_trades.
SkipsSave(batch) == batch = <<>>

ArInit ==
    /\ arPc = "get_slice"
    /\ processed_trades = {}
    /\ df = None
    /\ eur_cds = <<>>
    /\ trades = <<>>
    /\ table = EmptyBag
    /\ tableUnique \in BOOLEAN
    /\ now = 0
    /\ restarts = 0
    /\ returned = [i \in SliceIds |-> 0]
    /\ arFault = "none"
    /\ committed = {}
    /\ connected = FALSE

\* df = await self.get_latest_credit_slice(): a data frame, or None when the
\* dashboard lists no slice.
GetSlice ==
    /\ program = "cds_live_scraper"
    /\ arPc = "get_slice"
    /\ \E d \in {DataFrame(rows) : rows \in Slices} \cup {None} : df' = d
    /\ arPc' = "filter"
    /\ UNCHANGED <<processed_trades, eur_cds, trades, table, tableUnique, now,
                   restarts, returned, arFault, committed, connected>>
    /\ UNCHANGED <<apVars, fnVars, program>>

\* The download raises (network error, corrupt archive): run() has no handler.
GetSliceRaises ==
    /\ program = "cds_live_scraper"
    /\ arPc = "get_slice"
    /\ arPc' = Unhandled
    /\ arFault' = "fetch"
    /\ UNCHANGED <<processed_trades, df, eur_cds, trades, table, tableUnique, now,
                   restarts, returned, committed, connected>>
    /\ UNCHANGED <<apVars, fnVars, program>>

FilterEurCds ==
    /\ program = "cds_live_scraper"
    /\ arPc = "filter"
    /\ eur_cds' = filter_eur_cds(df)
    /\ arPc' = "process"
    /\ UNCHANGED <<processed_trades, df, trades, table, tableUnique, now,
                   restarts, returned, arFault, committed, connected>>
    /\ UNCHANGED <<apVars, fnVars, program>>

\* trades = self.process_trades(eur_cds), returning.
ProcessTrades ==
    LET res == process_trades(eur_cds, processed_trades, now) IN
    /\ program = "cds_live_scraper"
    /\ arPc = "process"
    /\ ~res.raised
    /\ trades' = res.processed
    /\ processed_trades' = res.seen
    /\ returned' = [i \in SliceIds |->
                      returned[i] + Cardinality({k \in DOMAIN res.processed :
                                                   res.processed[k].src = i})]
    /\ arPc' = "save"
    /\ UNCHANGED <<df, eur_cds, table, tableUnique, now, restarts, arFault,
                   committed, connected>>
    /\ UNCHANGED <<apVars, fnVars, program>>

\* self.process_trades(eur_cds) raising at a row: the identifiers added before
\* that row stay in self.processed_trades, nothing is returned, run() ends.
ProcessTradesRaises ==
    LET res == process_trades(eur_cds, processed_trades, now) IN
    /\ program = "cds_live_scraper"
    /\ arPc = "process"
    /\ res.raised
    /\ processed_trades' = res.seen
    /\ arPc' = Unhandled
    /\ arFault' = "normalize"
    /\ UNCHANGED <<df, eur_cds, trades, table, tableUnique, now, restarts, returned,
                   committed, connected>>
    /\ UNCHANGED <<apVars, fnVars, program>>

\* await self.save_trades(trades), returning: at once for an empty batch, else
\* after connect, the inserts and the commit.
SaveTrades ==
    /\ program = "cds_live_scraper"
    /\ arPc = "save"
    /\ IF SkipsSave(trades)
       THEN UNCHANGED <<table, committed, connected>>
       ELSE /\ table' = InsertAll(table, trades, tableUnique)
            /\ committed' = committed \cup {trades[k].src : k \in DOMAIN trades}
            /\ connected' = TRUE
    /\ arPc' = "sleep"
    /\ UNCHANGED <<processed_trades, df, eur_cds, trades, tableUnique, now,
                   restarts, returned, arFault>>
    /\ UNCHANGED <<apVars, fnVars, program>>

\* connect, execute or commit raises: nothing is committed, run() ends.
SaveTradesRaises ==
    /\ program = "cds_live_scraper"
    /\ arPc = "save"
    /\ ~SkipsSave(trades)
    /\ arPc' = Unhandled
    /\ arFault' = "persist"
    /\ connected' = TRUE
    /\ UNCHANGED <<processed_trades, df, eur_cds, trades, table, tableUnique, now,
                   restarts, returned, committed>>
    /\ UNCHANGED <<apVars, fnVars, program>>

\* await asyncio.sleep(60), then the next iteration; the clock may pass midnight
\* meanwhile. The locals are dead until the next iteration assigns them, so the
\* model forgets them here.
ArSleep ==
    /\ program = "cds_live_scraper"
    /\ arPc = "sleep"
    /\ arPc' = "get_slice"
    /\ \E d \in {0, 1} : now + d <= MaxNow /\ now' = now + d
    /\ df' = None
    /\ eur_cds' = <<>>
    /\ trades' = <<>>
    /\ connected' = FALSE
    /\ UNCHANGED <<processed_trades, table, tableUnique, restarts, returned, arFault,
                   committed>>
    /\ UNCHANGED <<apVars, fnVars, program>>

\* The process is started again: a new CDSRealTimeScraper, the table as it was.
ArRestart ==
    /\ program = "cds_live_scraper"
    /\ restarts < MaxRestarts
    /\ restarts' = restarts + 1
    /\ arPc' = "get_slice"
    /\ processed_trades' = {}
    /\ df' = None
    /\ eur_cds' = <<>>
    /\ trades' = <<>>
    /\ returned' = [i \in SliceIds |-> 0]
    /\ arFault' = "none"
    /\ committed' = {}
    /\ connected' = FALSE
    /\ UNCHANGED <<table, tableUnique, now>>
    /\ UNCHANGED <<apVars, fnVars, program>>

\* --------------------------------------------------------------- API mode

dtcc_base == "https://pddata.dtcc.com"
DefaultEndpoint == "https://pddata.dtcc.com/ppd/api/cds/trades"

\* The strings the two patterns can match in the dashboard page.
Matches == {"/ppd/api/cds", "/ppd/api/trades", "https://pddata.dtcc.com/ppd/api/cds",
            "https://api.dtcc.com/api/swaps"}

\* endpoints.add(self.dtcc_base + match) for a match starting with "/", else
\* endpoints.add(match).
Absolute(match) ==
    CASE match = "/ppd/api/cds" -> "https://pddata.dtcc.com/ppd/api/cds"
      [] match = "/ppd/api/trades" -> "https://pddata.dtcc.com/ppd/api/trades"
      [] OTHER -> match

\* The lists list(s) can give for a set s: any order.
Orders(S) ==
    {q \in SeqsUpTo(S, Cardinality(S)) :
        Len(q) = Cardinality(S) /\ {q[i] : i \in DOMAIN q} = S}

\* What the GET of the dashboard gives: an exception, or a page with its matches.
DashboardFails == [failed |-> TRUE, found |-> {}]
DashboardPage(found) == [failed |-> FALSE, found |-> found]
Dashboards == {DashboardFails} \cup {DashboardPage(f) : f \in SUBSET Matches}

\* The lists discover_api_endpoints can return for one dashboard response.
discover_api_endpoints(dashboard) ==
    IF dashboard.failed THEN {<<DefaultEndpoint>>}
    ELSE Orders({Absolute(m) : m \in dashboard.found})

\* Faulty variant of EndpointsToTry: every discovered endpoint is tried ("for ep in endpoints").
EndpointsAll(eps) == eps

\* "for ep in endpoints[:2]"
EndpointsToTry(eps) == SubSeq(eps, 1, Min(2, Len(eps)))

\* A JSON value of a raw record's field.
Null == [t |-> "null", n |-> 0, s |-> "", parts |-> <<>>]
Num(n) == [t |-> "num", n |-> n, s |-> "", parts |-> <<>>]
Str(s) == [t |-> "str", n |-> 0, s |-> s, parts |-> <<>>]

\* A JSON string written as a date or a time: s is its layout and parts are its
\* numbers in the order written ("A/B/Y" is two numbers and a year between
\* slashes).
DateText(layout, parts) == [t |-> "str", n |-> 0, s |-> layout, parts |-> parts]

\* Python truth of a field value, as "x or 0" tests it.
Truthy(x) == (x.t = "num" /\ x.n # 0) \/ (x.t = "str" /\ x.s # "")

\* The numbers float() reads from the strings of the catalogue (absent: ValueError).
NumericStrings == [k \in {"7"} |-> 7]

\* float(x or 0): the number, or ok = FALSE for the ValueError.
Float(x) ==
    IF ~Truthy(x) THEN [ok |-> TRUE, v |-> 0]
    ELSE IF x.t = "num" THEN [ok |-> TRUE, v |-> x.n]
    ELSE IF x.s \in DOMAIN NumericStrings THEN [ok |-> TRUE, v |-> NumericStrings[x.s]]
    ELSE [ok |-> FALSE, v |-> 0]

\* int((x or 0)*100): a number times 100; a string is repeated 100 times and
\* then read as an integer, which succeeds for a string of digits only (repeated
\* marks that value, the digits written 100 times over).
Spread100(x) ==
    IF ~Truthy(x) THEN [ok |-> TRUE, v |-> 0, repeated |-> FALSE]
    ELSE IF x.t = "num" THEN [ok |-> TRUE, v |-> x.n * 100, repeated |-> FALSE]
    ELSE IF x.s \in DOMAIN NumericStrings
         THEN [ok |-> TRUE, v |-> NumericStrings[x.s], repeated |-> TRUE]
    ELSE [ok |-> FALSE, v |-> 0, repeated |-> FALSE]

\* x or ''.
OrEmpty(x) == IF Truthy(x) THEN x ELSE Str("")

DaysInMonth(year, month) ==
    IF month = 2
    THEN IF (year % 4 = 0 /\ year % 100 # 0) \/ year % 400 = 0 THEN 29 ELSE 28
    ELSE IF month \in {4, 6, 9, 11} THEN 30 ELSE 31

\* A strptime format: the layout it matches, the positions of year, month and
\* day in it, and whether hour, minute and second follow.
Format(layout, y, m, d, clock) == [layout |-> layout, y |-> y, m |-> m, d |-> d, clock |-> clock]

TimestampFormats ==
    <<Format("Y-M-DTh:m:s.fZ", 1, 2, 3, TRUE), Format("Y-M-DTh:m:sZ", 1, 2, 3, TRUE),
      Format("Y-M-D h:m:s", 1, 2, 3, TRUE)>>

\* Faulty variant of DateFormats: month/day/year is tried before day/month/year.
DateFormats_month_first ==
    <<Format("Y-M-D", 1, 2, 3, FALSE), Format("A/B/Y", 3, 1, 2, FALSE),
      Format("A/B/Y", 3, 2, 1, FALSE)>>

DateFormats ==
    <<Format("Y-M-D", 1, 2, 3, FALSE), Format("A/B/Y", 3, 2, 1, FALSE),
      Format("A/B/Y", 3, 1, 2, FALSE)>>

NoDatetime == [ok |-> FALSE, year |-> 0, month |-> 0, day |-> 0,
               hour |-> 0, minute |-> 0, second |-> 0]

\* datetime.strptime(x, fmt): the datetime, or ok = FALSE for the TypeError of
\* a value that is no string and the ValueError of a string that does not
\* match or names no real date or time.
strptime(x, fmt) ==
    IF x.t # "str" \/ x.s # fmt.layout THEN NoDatetime
    ELSE LET year == x.parts[fmt.y]
             month == x.parts[fmt.m]
             day == x.parts[fmt.d]
             hour == IF fmt.clock THEN x.parts[4] ELSE 0
             minute == IF fmt.clock THEN x.parts[5] ELSE 0
             second == IF fmt.clock THEN x.parts[6] ELSE 0
         IN IF /\ year \in 1..9999
               /\ month \in 1..12
               /\ day \in 1..DaysInMonth(year, month)
               /\ hour \in 0..23
               /\ minute \in 0..59
               /\ second \in 0..59
            THEN [ok |-> TRUE, year |-> year, month |-> month, day |-> day,
                  hour |-> hour, minute |-> minute, second |-> second]
            ELSE NoDatetime

\* The loop over the formats from format i on: the first datetime strptime
\* gives (the except of the loop body passes over every exception).
RECURSIVE first_match(_, _, _)
first_match(x, fmts, i) ==
    IF i > Len(fmts) THEN NoDatetime
    ELSE IF strptime(x, fmts[i]).ok THEN strptime(x, fmts[i])
    ELSE first_match(x, fmts, i + 1)

\* strftime of a datetime, and strftime of datetime.now().
Rendered(v) == [now |-> FALSE, v |-> v]
datetime_now == [now |-> TRUE, v |-> <<>>]

parse_timestamp(x) ==
    LET dt == first_match(x, TimestampFormats, 1)
    IN IF dt.ok THEN Rendered(<<dt.hour, dt.minute, dt.second>>) ELSE datetime_now

parse_date(x) ==
    LET dt == first_match(x, DateFormats, 1)
    IN IF dt.ok THEN Rendered(<<dt.year, dt.month, dt.day>>) ELSE datetime_now

\* A raw record that is a JSON object, and one that is not: a JSON string (text
\* is the string).
Mapping(price, notional, spread, upfront) ==
    [mapping |-> TRUE, price |-> price, notionalAmount |-> notional,
     spread |-> spread, upfrontPayment |-> upfront, text |-> "",
     executionTimestamp |-> Null, maturityDate |-> Null]
NotAMapping == [mapping |-> FALSE, price |-> Null, notionalAmount |-> Null,
                spread |-> Null, upfrontPayment |-> Null, text |-> "n/a",
                executionTimestamp |-> Null, maturityDate |-> Null]
JsonString(s) == [NotAMapping EXCEPT !.text = s]

\* The JSON object t with the keys executionTimestamp and maturityDate set.
Dated(t, ts, md) == [t EXCEPT !.executionTimestamp = ts, !.maturityDate = md]

\* The raw records an endpoint can return.
RawRecords ==
    { Mapping(Num(1), Num(5), Num(2), Null),
      Mapping(Str("7"), Num(5), Str("7"), Num(3)),
      Mapping(Str("n/a"), Num(5), Num(2), Null),
      Mapping(Num(1), Num(5), Str("n/a"), Null),
      NotAMapping }

NoTrade == [parsed |-> FALSE, price |-> 0, notional |-> 0, rate_spr |-> 0,
            rate_spr_repeated |-> FALSE, other_payment |-> 0,
            trade_time |-> datetime_now, maturity |-> datetime_now]

\* parse_trade: the dict, or None (NoTrade) when anything inside the try raises.
parse_trade(t) ==
    IF ~t.mapping THEN NoTrade
    ELSE LET price == Float(t.price)
             notional == Float(t.notionalAmount)
             spread == Spread100(t.spread)
             upfront == Float(t.upfrontPayment)
         IN IF price.ok /\ notional.ok /\ spread.ok /\ upfront.ok
            THEN [parsed |-> TRUE, price |-> price.v, notional |-> notional.v,
                  rate_spr |-> spread.v, rate_spr_repeated |-> spread.repeated,
                  other_payment |-> upfront.v,
                  trade_time |-> parse_timestamp(OrEmpty(t.executionTimestamp)),
                  maturity |-> parse_date(OrEmpty(t.maturityDate))]
            ELSE NoTrade

\* Faulty variant of parse_records: the first record parse_trade rejects ends the loop
\* and empties the batch.
RECURSIVE parse_records_abort(_, _, _, _)
parse_records_abort(rawList, i, acc, k) ==
    IF i > Len(rawList) THEN acc
    ELSE LET parsed == IF i = k THEN NoTrade ELSE parse_trade(rawList[i])
         IN IF parsed.parsed
            THEN parse_records_abort(rawList, i + 1, Append(acc, parsed), k)
            ELSE <<>>

\* The inner loop of scrape_cycle over data from record i on, appending to acc;
\* k is the record during whose parse_trade a KeyboardInterrupt arrives (0: none):
\* the bare except of parse_trade turns it into None.
RECURSIVE parse_records(_, _, _, _)
parse_records(rawList, i, acc, k) ==
    IF i > Len(rawList) THEN acc
    ELSE LET parsed == IF i = k THEN NoTrade ELSE parse_trade(rawList[i])
         IN parse_records(rawList, i + 1,
                          IF parsed.parsed THEN Append(acc, parsed) ELSE acc, k)

RawLists == SeqsUpTo(RawRecords, MaxRecords)

\* A decoded JSON body: a list (items), an object (fields: its keys, each with
\* its value) or any other value.
CandidateKeys == <<"data", "trades", "records", "results">>
ListValue(items) == [isList |-> TRUE, items |-> items]
OtherValue == [isList |-> FALSE, items |-> <<>>]
NoFields == [k \in {} |-> OtherValue]
ListBody(items) == [type |-> "list", items |-> items, fields |-> NoFields]
ObjectBody(fields) == [type |-> "object", items |-> <<>>, fields |-> fields]
ScalarBody == [type |-> "scalar", items |-> <<>>, fields |-> NoFields]

\* What the GET of an endpoint gives while the endpoints serve the records f: an
\* exception (network error, timeout, a body that is no JSON; a non-2xx status,
\* whatever its body), or a decoded body.
FetchFails == [failed |-> TRUE, body |-> ScalarBody]
HttpError(body) == [failed |-> TRUE, body |-> body]
Response(body) == [failed |-> FALSE, body |-> body]
Responses(f) ==
    {FetchFails, HttpError(ListBody(f)), Response(ScalarBody), Response(ListBody(f)),
     Response(ListBody(<<>>)),
     Response(ObjectBody(("data" :> OtherValue) @@ ("trades" :> ListValue(f))))}
    \cup {Response(ObjectBody(k :> ListValue(f))) : k \in {"data", "results", "rows"}}

\* "key in data", for the keys that are strings.
Contains(body, key) ==
    CASE body.type = "object" -> key \in DOMAIN body.fields
      [] body.type = "list" ->
            \E i \in DOMAIN body.items : ~body.items[i].mapping /\ body.items[i].text = key
      [] OTHER -> FALSE

\* The loop over the candidate keys from key i on and the statements after it:
\* the list returned. data[key] on a list raises, "key in data" on a value that
\* is no container raises: the except clause then leads to "return []".
RECURSIVE decode_from(_, _)
decode_from(body, i) ==
    IF body.type = "scalar" THEN <<>>
    ELSE IF i > Len(CandidateKeys)
         THEN IF body.type = "list" THEN body.items ELSE <<>>
    ELSE IF Contains(body, CandidateKeys[i])
         THEN IF body.type = "list" THEN <<>>
              ELSE IF body.fields[CandidateKeys[i]].isList
                   THEN body.fields[CandidateKeys[i]].items
                   ELSE decode_from(body, i + 1)
    ELSE decode_from(body, i + 1)

\* Faulty variant of fetch_cds_trades: no raise_for_status, the body of an error
\* response is decoded like any other.
fetch_cds_trades_unchecked(resp) == decode_from(resp.body, 1)

\* fetch_cds_trades: the list under the first candidate key holding a list, the
\* body itself when it is a list, [] otherwise and on any exception.
fetch_cds_trades(resp) ==
    IF resp.failed THEN <<>> ELSE decode_from(resp.body, 1)

\* Faulty variant of sleep_after: the handler sleeps the standard cadence too.
sleep_after_fixed(outcome) == 60

\* The sleep run_forever makes after a cycle: line 133 after a return, line 138
\* in the handler of an exception.
sleep_after(outcome) == IF outcome = "raised" THEN 30 ELSE 60

\* "if data:" ... "break": the loop over the endpoints ends after a fetch that
\* gave records.
StopsAfter(got) == got # <<>>

ApInit ==
    /\ apPc = "cycle"
    /\ endpoints = <<>>
    /\ tried = 0
    /\ data = <<>>
    /\ all_trades = <<>>
    /\ sleepSecs = 0
    /\ apOutcome = "none"
    /\ fetchLog = <<>>
    /\ batchFrom = {}
    /\ absorbed = 0
    /\ sent = <<>>
    /\ upsertCalls = 0
    /\ feed = <<>>
    /\ feedServed = FALSE
    /\ dataIsRepeat = FALSE
    /\ discovery = "none"
    /\ stopAt = "none"
    /\ stopRequested = FALSE

InCycle == apPc \in {"cycle", "fetch", "parse", "store", "return"}

\* scrape_cycle returns or raises, its locals are gone, and run_forever sleeps.
EndCycle(outcome) ==
    /\ apOutcome' = outcome
    /\ sleepSecs' = sleep_after(outcome)
    /\ apPc' = "sleep"
    /\ endpoints' = <<>>
    /\ tried' = 0
    /\ data' = <<>>
    /\ all_trades' = <<>>
    /\ fetchLog' = <<>>
    /\ batchFrom' = {}
    /\ absorbed' = 0
    /\ sent' = <<>>
    /\ upsertCalls' = 0
    /\ dataIsRepeat' = FALSE
    /\ discovery' = "none"

\* A KeyboardInterrupt that reaches run_forever's "except KeyboardInterrupt: break".
Break(place) ==
    /\ apPc' = "stopped"
    /\ stopAt' = place
    /\ stopRequested' = TRUE
    /\ UNCHANGED <<endpoints, tried, data, all_trades, sleepSecs, apOutcome, fetchLog,
                   batchFrom, absorbed, sent, upsertCalls, feed, feedServed, dataIsRepeat,
                   discovery>>

\* The upstream publishes other records. A cycle reads the feed only in its
\* fetches, so a publication takes effect between two cycles.
FeedChanges ==
    /\ program = "enhanced_dtcc_scraper"
    /\ apPc = "sleep"
    /\ \E f \in RawLists : f # feed /\ feed' = f
    /\ feedServed' = FALSE
    /\ UNCHANGED <<apPc, endpoints, tried, data, all_trades, sleepSecs, apOutcome,
                   fetchLog, batchFrom, absorbed, sent, upsertCalls, dataIsRepeat, discovery,
                   stopAt, stopRequested>>
    /\ UNCHANGED <<arVars, fnVars, program>>

\* scrape_cycle begins: endpoints = self.discover_api_endpoints(); all_trades = [].
Discover ==
    /\ program = "enhanced_dtcc_scraper"
    /\ apPc = "cycle"
    /\ \E d \in Dashboards : \E eps \in discover_api_endpoints(d) :
          /\ endpoints' = eps
          /\ discovery' = IF d.failed THEN "failed"
                          ELSE IF d.found = {} THEN "no_match" ELSE "matches"
          /\ apPc' = IF EndpointsToTry(eps) = <<>> THEN "store" ELSE "fetch"
    /\ all_trades' = <<>>
    /\ UNCHANGED <<tried, data, sleepSecs, apOutcome, fetchLog, batchFrom, absorbed,
                   sent, upsertCalls, feed, feedServed, dataIsRepeat, stopAt, stopRequested>>
    /\ UNCHANGED <<arVars, fnVars, program>>

\* One iteration of "for ep in endpoints[:2]" up to "if data:".
Fetch ==
    /\ program = "enhanced_dtcc_scraper"
    /\ apPc = "fetch"
    /\ tried < Len(EndpointsToTry(endpoints))
    /\ \E resp \in Responses(feed) :
          LET got == fetch_cds_trades(resp) IN
          /\ data' = got
          /\ fetchLog' = Append(fetchLog, [ep |-> EndpointsToTry(endpoints)[tried + 1],
                                           yielded |-> got # <<>>,
                                           failed |-> resp.failed])
          /\ dataIsRepeat' = (feedServed /\ got = feed)
          /\ apPc' = IF StopsAfter(got) THEN "parse"
                     ELSE IF tried + 1 < Len(EndpointsToTry(endpoints)) THEN "fetch"
                     ELSE "store"
    /\ tried' = tried + 1
    /\ UNCHANGED <<endpoints, all_trades, sleepSecs, apOutcome, batchFrom, absorbed,
                   sent, upsertCalls, feed, feedServed, discovery, stopAt, stopRequested>>
    /\ UNCHANGED <<arVars, fnVars, program>>

\* "for raw in data: ..." and "break": every record through parse_trade. With
\* k > 0 a KeyboardInterrupt arrives inside parse_trade of record k and is
\* swallowed there.
ParseBatch ==
    /\ program = "enhanced_dtcc_scraper"
    /\ apPc = "parse"
    /\ \E k \in 0..Len(data) :
          /\ all_trades' = parse_records(data, 1, all_trades, k)
          /\ absorbed' = k
          /\ stopRequested' = (stopRequested \/ k > 0)
    /\ batchFrom' = IF data # <<>> THEN batchFrom \cup {fetchLog[Len(fetchLog)].ep}
                    ELSE batchFrom
    /\ apPc' = "store"
    /\ UNCHANGED <<endpoints, tried, data, sleepSecs, apOutcome, fetchLog, sent,
                   upsertCalls, feed, feedServed, dataIsRepeat, discovery, stopAt>>
    /\ UNCHANGED <<arVars, fnVars, program>>

\* "if all_trades: upsert ... else: ...", the upsert succeeding.
Store ==
    /\ program = "enhanced_dtcc_scraper"
    /\ apPc = "store"
    /\ IF all_trades # <<>>
       THEN sent' = all_trades /\ upsertCalls' = upsertCalls + 1
       ELSE UNCHANGED <<sent, upsertCalls>>
    /\ apPc' = "return"
    /\ UNCHANGED <<endpoints, tried, data, all_trades, sleepSecs, apOutcome, fetchLog,
                   batchFrom, absorbed, feed, feedServed, dataIsRepeat, discovery, stopAt,
                   stopRequested>>
    /\ UNCHANGED <<arVars, fnVars, program>>

\* The upsert raises (sink unreachable, rejected batch): scrape_cycle raises and
\* run_forever's "except Exception" sleeps 30 seconds.
StoreRaises ==
    /\ program = "enhanced_dtcc_scraper"
    /\ apPc = "store"
    /\ all_trades # <<>>
    /\ EndCycle("raised")
    /\ feedServed' = FALSE
    /\ UNCHANGED <<feed, stopAt, stopRequested>>
    /\ UNCHANGED <<arVars, fnVars, program>>

\* scrape_cycle returns; run_forever calls time.sleep(60).
Return ==
    /\ program = "enhanced_dtcc_scraper"
    /\ apPc = "return"
    /\ EndCycle("returned")
    /\ feedServed' = (data = feed /\ data # <<>> /\ absorbed = 0)
    /\ UNCHANGED <<feed, stopAt, stopRequested>>
    /\ UNCHANGED <<arVars, fnVars, program>>

\* time.sleep returns: the next iteration of "while True".
ApSleep ==
    /\ program = "enhanced_dtcc_scraper"
    /\ apPc = "sleep"
    /\ apPc' = "cycle"
    /\ sleepSecs' = 0
    /\ UNCHANGED <<endpoints, tried, data, all_trades, apOutcome, fetchLog, batchFrom,
                   absorbed, sent, upsertCalls, feed, feedServed, dataIsRepeat, discovery,
                   stopAt, stopRequested>>
    /\ UNCHANGED <<arVars, fnVars, program>>

\* KeyboardInterrupt during the dashboard GET, an endpoint GET, between two
\* parse_trade calls, or during the upsert: "except Exception" does not catch it,
\* it leaves scrape_cycle and run_forever breaks.
InterruptCycle ==
    /\ program = "enhanced_dtcc_scraper"
    /\ InCycle
    /\ Break(apPc)
    /\ UNCHANGED <<arVars, fnVars, program>>

\* KeyboardInterrupt during time.sleep(60), inside the try: break.
InterruptSleep ==
    /\ program = "enhanced_dtcc_scraper"
    /\ apPc = "sleep"
    /\ apOutcome = "returned"
    /\ Break("sleep")
    /\ UNCHANGED <<arVars, fnVars, program>>

\* KeyboardInterrupt during time.sleep(30), inside the except clause: no clause
\* of the same try handles it, it leaves run_forever.
InterruptBackoff ==
    /\ program = "enhanced_dtcc_scraper"
    /\ apPc = "sleep"
    /\ apOutcome = "raised"
    /\ apPc' = "killed"
    /\ stopAt' = "sleep"
    /\ stopRequested' = TRUE
    /\ UNCHANGED <<endpoints, tried, data, all_trades, sleepSecs, apOutcome, fetchLog,
                   batchFrom, absorbed, sent, upsertCalls, feed, feedServed, dataIsRepeat,
                   discovery>>
    /\ UNCHANGED <<arVars, fnVars, program>>

ApNext ==
    \/ FeedChanges
    \/ Discover
    \/ Fetch
    \/ ParseBatch
    \/ Store
    \/ StoreRaises
    \/ Return
    \/ ApSleep
    \/ InterruptCycle
    \/ InterruptSleep
    \/ InterruptBackoff

ArNext ==
    \/ GetSlice
    \/ GetSliceRaises
    \/ FilterEurCds
    \/ ProcessTrades
    \/ ProcessTradesRaises
    \/ SaveTrades
    \/ SaveTradesRaises
    \/ ArSleep
    \/ ArRestart

\* ------------------------------------------------ single calls of functions

FnInit ==
    /\ fnPc = "idle"
    /\ fnIn = <<>>
    /\ fnOut = <<>>

\* The values a key of a JSON object can hold.
FieldValues ==
    {OtherValue, ListValue(<<>>), ListValue(<<Mapping(Num(1), Num(5), Num(2), Null)>>),
     ListValue(<<Mapping(Num(2), Num(5), Num(2), Null)>>)}

\* The JSON objects over the candidate keys and one other key.
Objects ==
    UNION {[keys -> FieldValues] : keys \in SUBSET {"data", "trades", "records", "results", "rows"}}

\* The elements of a JSON list: an object, strings.
Elements ==
    {Mapping(Num(1), Num(5), Num(2), Null), JsonString("n/a"), JsonString("data"),
     JsonString("results")}

\* The responses fetch_cds_trades is called on.
DecodeInputs ==
    {FetchFails, Response(ScalarBody)}
    \cup {Response(ObjectBody(f)) : f \in Objects}
    \cup {Response(ListBody(l)) : l \in SeqsUpTo(Elements, MaxElements)}
    \cup {HttpError(ListBody(l)) : l \in SeqsUpTo(Elements, MaxElements)}

\* fetch_cds_trades on one response.
CallFetchCdsTrades ==
    /\ fnPc = "idle"
    /\ \E resp \in DecodeInputs :
          /\ fnIn' = resp
          /\ fnOut' = fetch_cds_trades(resp)
    /\ fnPc' = "fetch_cds_trades"
    /\ UNCHANGED <<arVars, apVars, program>>

\* The rows filter_eur_cds is called on: every combination of matching and
\* non-matching asset class, currency and name.
FilterRows ==
    {[id |-> "D1", asset |-> a, ccy |-> c, name |-> n, expiry |-> Date(730)] :
        a \in {"CR", "IR"}, c \in {"EUR", "USD"}, n \in {"SAP SE", "BMW AG", "ACME CORP"}}

\* filter_eur_cds on one data frame, or on None.
CallFilterEurCds ==
    /\ fnPc = "idle"
    /\ \E frame \in {None} \cup {DataFrame(rows) : rows \in SeqsUpTo(FilterRows, MaxRows)} :
          /\ fnIn' = frame
          /\ fnOut' = filter_eur_cds(frame)
    /\ fnPc' = "filter_eur_cds"
    /\ UNCHANGED <<arVars, apVars, program>>

\* Expiration dates, in days from the day the clock starts: in the past, less
\* than a year out, and around whole numbers of years.
Expiries == {-731, -730, -366, -365, -1, 0, 1, 364, 365, 366, 729, 730, 731, 1095, 1096}

\* process_trades on a frame of one row not seen before, at some time of day of
\* the first two days of the clock.
CallProcessTrades ==
    /\ fnPc = "idle"
    /\ \E e \in Expiries, nowTick \in 0..(2 * TicksPerDay) :
          /\ fnIn' = [expiry |-> e, now |-> nowTick]
          /\ fnOut' = process_trades(
                          <<[id |-> "D1", asset |-> "CR", ccy |-> "EUR", name |-> "SAP SE",
                             expiry |-> Date(e)]>>, {}, nowTick).processed
    /\ fnPc' = "process_trades"
    /\ UNCHANGED <<arVars, apVars, program>>

\* Values of no date or time: null, numbers, the empty string, other text.
Undated == {Null, Num(0), Num(5), Str(""), Str("n/a")}

\* The values parse_timestamp is called on.
TimestampInputs ==
    Undated \cup {DateText("Y-M-D", <<2025, 4, 3>>)}
    \cup {DateText(l, <<2025, mo, d, h, mi, sec>>) :
            l \in {"Y-M-DTh:m:s.fZ", "Y-M-DTh:m:sZ", "Y-M-D h:m:s"},
            mo \in {2, 13}, d \in {28, 30}, h \in {23, 24}, mi \in {59, 60}, sec \in {58, 60}}

\* The values parse_date is called on.
DateInputs ==
    Undated \cup {DateText("Y-M-DTh:m:sZ", <<2025, 4, 3, 10, 0, 0>>)}
    \cup {DateText("Y-M-D", <<y, mo, d>>) :
            y \in {2024, 2025}, mo \in {0, 2, 12, 13}, d \in {0, 29, 31, 32}}
    \cup {DateText("A/B/Y", <<a, b, y>>) :
            a \in {0, 2, 4, 12, 13, 29, 31}, b \in {0, 2, 4, 12, 13, 29, 31}, y \in {2024, 2025}}

\* The records parse_trade is called on.
DatedRecords ==
    {NotAMapping}
    \cup {Dated(t, ts, md) :
            t \in {Mapping(Num(1), Num(5), Num(2), Null), Mapping(Str("n/a"), Num(5), Num(2), Null)},
            ts \in Undated \cup {DateText("Y-M-DTh:m:sZ", <<2025, 4, 3, 10, 0, 0>>),
                                 DateText("Y-M-DTh:m:sZ", <<2025, 4, 3, 24, 0, 0>>)},
            md \in Undated \cup {DateText("A/B/Y", <<3, 4, 2025>>),
                                 DateText("A/B/Y", <<31, 2, 2025>>)}}

CallParseTimestamp ==
    /\ fnPc = "idle"
    /\ \E x \in TimestampInputs :
          /\ fnIn' = x
          /\ fnOut' = parse_timestamp(x)
    /\ fnPc' = "parse_timestamp"
    /\ UNCHANGED <<arVars, apVars, program>>

CallParseDate ==
    /\ fnPc = "idle"
    /\ \E x \in DateInputs :
          /\ fnIn' = x
          /\ fnOut' = parse_date(x)
    /\ fnPc' = "parse_date"
    /\ UNCHANGED <<arVars, apVars, program>>

CallParseTrade ==
    /\ fnPc = "idle"
    /\ \E t \in DatedRecords :
          /\ fnIn' = t
          /\ fnOut' = parse_trade(t)
    /\ fnPc' = "parse_trade"
    /\ UNCHANGED <<arVars, apVars, program>>

FnNext ==
    \/ CallFetchCdsTrades
    \/ CallParseTimestamp
    \/ CallParseDate
    \/ CallParseTrade
    \/ CallFilterEurCds
    \/ CallProcessTrades

\* ---------------------------------------------------------- specifications

\* The two scripts: each is run on its own.
Programs == {"cds_live_scraper", "enhanced_dtcc_scraper"}

Init == ArInit /\ ApInit /\ FnInit /\ program \in Programs

\* The archive-mode program started.
InitArchive == Init /\ program = "cds_live_scraper"

\* The API-mode program started: the archive program's table plays no part.
InitApi == Init /\ program = "enhanced_dtcc_scraper" /\ ~tableUnique

Next == ArNext \/ ApNext \/ FnNext

\* The archive-mode program, the API-mode program, either of the two, single
\* calls of their functions, and all of it.
SpecArchive == InitArchive /\ [][ArNext]_vars
SpecApi == InitApi /\ [][ApNext]_vars
SpecPrograms == (InitArchive \/ InitApi) /\ [][ArNext \/ ApNext]_vars
SpecFunctions == InitApi /\ [][FnNext]_vars
Spec == Init /\ [][Next]_vars

\* ------------------------------------------------------------------ claims

\* Rows of cds_trades_live that came from the report with identifier i.
RowsOf(i) ==
    LET rows == {r \in BagToSet(table) : r.src = i}
    IN BagCardinality([r \in rows |-> table[r]])

\* C1: every Dissemination Identifier the instance has marked as seen (and so
\* suppresses from now on) appeared in exactly one returned batch: it was
\* admitted the first time it was seen, and never twice.
C1_AdmittedWhenFirstSeen ==
    /\ \A i \in SliceIds : returned[i] <= 1
    /\ \A i \in processed_trades : returned[i] = 1

\* C2: a scrape_cycle that returns sent to the sink exactly the parsable records
\* of its data, and a cycle whose chosen endpoint returned the very list the
\* previous cycle already handled admits no record.
C2_SecondCycleAdmitsNone ==
    apPc = "return" =>
        /\ (dataIsRepeat => all_trades = <<>> /\ sent = <<>>)
        /\ (~dataIsRepeat /\ absorbed = 0 => sent = parse_records(data, 1, <<>>, 0))

\* C3: cds_trades_live never holds two rows for one Dissemination Identifier,
\* whatever restarts emptied processed_trades in between.
C3_OneRowPerIdentifier == \A i \in SliceIds : RowsOf(i) <= 1

\* C4: after an exception in a stage of a cycle the loop is still running: run()
\* has not ended, and run_forever has not ended unless a stop signal ended it.
C4_LoopSurvivesBadCycle ==
    /\ arFault # "none" => arPc # "dead"
    /\ apOutcome = "raised" /\ stopAt = "none" => apPc \notin {"stopped", "killed"}

\* C5: run_forever sleeps 60 seconds after a scrape_cycle that returned and 30
\* seconds after one that raised an exception, a cycle ends in nothing but that
\* sleep or the stop signal, and a sleep that returns is followed by the next cycle.
C5_Cadence ==
    [][ /\ (InCycle /\ apPc' \notin {"cycle", "fetch", "parse", "store", "return"})
            => \/ apPc' = "stopped"
               \/ apPc' = "sleep" /\ apPc = "return" /\ apOutcome' = "returned"
                  /\ sleepSecs' = 60
               \/ apPc' = "sleep" /\ apPc = "store" /\ apOutcome' = "raised"
                  /\ sleepSecs' = 30
        /\ (apPc = "sleep" /\ apPc' \notin {"sleep", "stopped", "killed"})
            => apPc' = "cycle" /\ discovery' = "none" /\ endpoints' = <<>>
      ]_vars

C5_Witness == apPc = "sleep" /\ apOutcome = "raised" /\ sleepSecs = 30

\* C6: discover_api_endpoints returns exactly the default endpoint when the
\* dashboard GET fails and when the page holds no candidate, and never an empty list.
C6_FallbackEndpoint ==
    discovery # "none" =>
        /\ endpoints # <<>>
        /\ discovery \in {"failed", "no_match"} => endpoints = <<DefaultEndpoint>>

\* C7: the fetches of a cycle are at most two, they go through the discovered
\* endpoints in order, no fetch follows one that gave records, and the batch
\* holds records of the last fetched endpoint only.
C7_EndpointAttempts ==
    /\ Len(fetchLog) <= 2
    /\ Len(fetchLog) <= Len(endpoints)
    /\ \A i \in DOMAIN fetchLog :
          /\ fetchLog[i].ep = endpoints[i]
          /\ i < Len(fetchLog) => ~fetchLog[i].yielded
    /\ all_trades # <<>> => batchFrom # {}
    /\ batchFrom # {} =>
          /\ fetchLog # <<>>
          /\ fetchLog[Len(fetchLog)].yielded
          /\ batchFrom = {fetchLog[Len(fetchLog)].ep}

C7_Witness ==
    /\ apPc = "return"
    /\ Len(endpoints) = 3
    /\ Len(fetchLog) = 2
    /\ fetchLog[2].yielded
    /\ sent # <<>>

\* C8: run_forever ends by the stop signal only when the signal arrived during
\* the sleep between two cycles; a signal during a cycle does not end that cycle.
C8_StopOnlyBetweenCycles == apPc = "stopped" => stopAt = "sleep"

\* C9: process_trades is not ended by a row that fails to normalize, and when it
\* has returned every row of the batch that does normalize has been processed.
C9_BadRowAloneDropped ==
    /\ arFault # "normalize"
    /\ arPc = "save" =>
          \A k \in DOMAIN eur_cds :
              ~NormalizeRaises(eur_cds[k]) => eur_cds[k].id \in processed_trades

\* A raw record parse_trade must reject: not a mapping, or a price, notional,
\* spread or upfront payment that is text and no number.
C10_Rejected(raw) ==
    \/ ~raw.mapping
    \/ \E x \in {raw.price, raw.notionalAmount, raw.spread, raw.upfrontPayment} :
          x.t = "str" /\ x.s \notin {"", "7"}

\* The number a field that is not rejected stands for.
C10_Number(x) == IF x.t = "num" THEN x.n ELSE IF x.s = "7" THEN 7 ELSE 0

\* The records of rawList from i on that the batch must hold.
RECURSIVE C10_Kept(_, _, _)
C10_Kept(rawList, i, k) ==
    IF i > Len(rawList) THEN <<>>
    ELSE IF C10_Rejected(rawList[i]) \/ i = k THEN C10_Kept(rawList, i + 1, k)
    ELSE <<rawList[i]>> \o C10_Kept(rawList, i + 1, k)

C11_TransientFetchFailure ==
    [][ /\ (Len(fetchLog') > Len(fetchLog) /\ fetchLog'[Len(fetchLog')].failed)
            => /\ data' = <<>>
               /\ all_trades' = all_trades
               /\ apPc' \in {"fetch", "store"}
        /\ (apPc' = "sleep" /\ fetchLog # <<>> /\ \A i \in DOMAIN fetchLog : fetchLog[i].failed)
            => /\ apPc = "return"
               /\ apOutcome' = "returned"
               /\ sleepSecs' = 60
               /\ upsertCalls = 0
      ]_vars

C11_Witness ==
    /\ apPc = "return"
    /\ Len(fetchLog) = 2
    /\ fetchLog[1].failed /\ fetchLog[2].failed
    /\ feed # <<>>

\* The candidate keys, by position, under which the object holds a list.
C12_Hits(fields) ==
    {i \in DOMAIN CandidateKeys :
        CandidateKeys[i] \in DOMAIN fields /\ fields[CandidateKeys[i]].isList}

\* C12: fetch_cds_trades returns, for an object, the list under the first
\* candidate key that holds a list; for a list, the list itself; for every
\* other body and for a failed GET, the empty list.
C12_Decoding ==
    fnPc = "fetch_cds_trades" =>
        fnOut =
            IF fnIn.failed THEN <<>>
            ELSE IF fnIn.body.type = "object"
                 THEN LET hits == C12_Hits(fnIn.body.fields)
                      IN IF hits = {} THEN <<>>
                         ELSE fnIn.body.fields[CandidateKeys[
                                  CHOOSE i \in hits : \A j \in hits : i <= j]].items
            ELSE IF fnIn.body.type = "list" THEN fnIn.body.items
            ELSE <<>>

\* The names of the allow-list.
C13_AllowList ==
    {"VODAFONE GROUP PLC", "DEUTSCHE BANK AG", "BNP PARIBAS SA", "BANCO SANTANDER SA",
     "TELECOM ITALIA SPA", "TOTALENERGIES SE", "SHELL PLC", "SIEMENS AG", "BMW AG", "SAP SE"}

C13_Keep(row) == row.asset = "CR" /\ row.ccy = "EUR" /\ row.name \in C13_AllowList

\* C13: filter_eur_cds returns, in their order, exactly the rows whose asset
\* class is CR, whose currency is EUR and whose name is in the allow-list; None
\* and the empty frame give the empty result.
C13_EntityFilter ==
    fnPc = "filter_eur_cds" =>
        /\ (fnIn.isNone \/ fnIn.rows = <<>>) => fnOut = <<>>
        /\ ~fnIn.isNone => fnOut = SelectSeq(fnIn.rows, C13_Keep)

\* filter_eur_cds has dropped a row that fails the asset-class test alone and
\* kept a row beside it.
C13_Witness ==
    /\ fnPc = "filter_eur_cds"
    /\ ~fnIn.isNone
    /\ Len(fnOut) = 1
    /\ \E i \in DOMAIN fnIn.rows :
          /\ fnIn.rows[i].asset = "IR"
          /\ fnIn.rows[i].ccy = "EUR"
          /\ fnIn.rows[i].name \in C13_AllowList

\* C14: the tenor process_trades computes is at least 1, is 1 for a maturity
\* in the past or under two years out, is otherwise the number of whole 365-day
\* periods in the time to maturity, and is the same in the instrument string
\* and in rate_spread.
C14_TenorFloor ==
    fnPc = "process_trades" =>
        LET y == fnOut[1].rate_spread
            ticks == fnIn.expiry * TicksPerDay - fnIn.now
            year == 365 * TicksPerDay
        IN /\ Len(fnOut) = 1
           /\ y >= 1
           /\ ticks < 2 * year => y = 1
           /\ ticks >= 2 * year => (y * year <= ticks /\ ticks < (y + 1) * year)
           /\ fnOut[1].instrument[3] = y

\* process_trades has computed the tenor of a maturity in the past, at a time
\* of day after midnight.
C14_Witness ==
    /\ fnPc = "process_trades"
    /\ fnIn.expiry < 0
    /\ fnIn.now % TicksPerDay # 0
    /\ fnOut[1].rate_spread = 1

C15_RealDate(y, m, d) == y \in 1..9999 /\ m \in 1..12 /\ d \in 1..DaysInMonth(y, m)

C15_RealTime(h, m, sec) == h \in 0..23 /\ m \in 0..59 /\ sec \in 0..59

\* What the claim gives for a timestamp: the time of day of a string in one of
\* the three layouts that names a real date and time, else the current time.
C15_Timestamp(x) ==
    IF /\ x.t = "str"
       /\ x.s \in {"Y-M-DTh:m:s.fZ", "Y-M-DTh:m:sZ", "Y-M-D h:m:s"}
       /\ C15_RealDate(x.parts[1], x.parts[2], x.parts[3])
       /\ C15_RealTime(x.parts[4], x.parts[5], x.parts[6])
    THEN Rendered(<<x.parts[4], x.parts[5], x.parts[6]>>)
    ELSE datetime_now

\* What the claim gives for a date: year-month-day first, then day/month/year,
\* then month/day/year, else the current date.
C15_Date(x) ==
    IF x.t = "str" /\ x.s = "Y-M-D" /\ C15_RealDate(x.parts[1], x.parts[2], x.parts[3])
    THEN Rendered(<<x.parts[1], x.parts[2], x.parts[3]>>)
    ELSE IF x.t = "str" /\ x.s = "A/B/Y" /\ C15_RealDate(x.parts[3], x.parts[2], x.parts[1])
    THEN Rendered(<<x.parts[3], x.parts[2], x.parts[1]>>)
    ELSE IF x.t = "str" /\ x.s = "A/B/Y" /\ C15_RealDate(x.parts[3], x.parts[1], x.parts[2])
    THEN Rendered(<<x.parts[3], x.parts[1], x.parts[2]>>)
    ELSE datetime_now

\* C15: parse_timestamp and parse_date return the rendering of the first
\* format of their list that matches and the current time or date when none
\* does (an empty, missing or non-string value included); whether parse_trade
\* returns a dict does not depend on the two date fields of the record.
C15_DateFallback ==
    /\ fnPc = "parse_timestamp" => fnOut = C15_Timestamp(fnIn)
    /\ fnPc = "parse_date" => fnOut = C15_Date(fnIn)
    /\ fnPc = "parse_trade" =>
          /\ fnOut.parsed = parse_trade(Dated(fnIn, Null, Null)).parsed
          /\ fnOut.parsed =>
                /\ fnOut.trade_time = C15_Timestamp(OrEmpty(fnIn.executionTimestamp))
                /\ fnOut.maturity = C15_Date(OrEmpty(fnIn.maturityDate))

\* parse_date has read a string that both slash formats match, day first.
C15_Witness ==
    /\ fnPc = "parse_date"
    /\ fnIn.s = "A/B/Y"
    /\ fnIn.parts[1] # fnIn.parts[2]
    /\ C15_RealDate(fnIn.parts[3], fnIn.parts[2], fnIn.parts[1])
    /\ C15_RealDate(fnIn.parts[3], fnIn.parts[1], fnIn.parts[2])
    /\ fnOut = Rendered(<<fnIn.parts[3], fnIn.parts[2], fnIn.parts[1]>>)

\* C16: once a KeyboardInterrupt has been delivered to the process, run_forever
\* begins no further cycle.
C16_StopAlwaysTerminates == stopRequested => apPc # "cycle"

\* C17: whenever run() begins a cycle, every identifier in processed_trades
\* belongs to a batch that save_trades committed.
C17_SeenImpliesStored == arPc = "get_slice" => processed_trades \subseteq committed

\* process_trades has raised after marking a row as seen: the identifier is in
\* processed_trades and in no committed batch.
C17_Witness ==
    /\ arPc = "dead"
    /\ arFault = "normalize"
    /\ processed_trades \ committed # {}

\* C18: in API mode upsert is called at most once per cycle and only with a
\* non-empty batch; in archive mode save_trades with an empty batch opens no
\* connection and leaves the table as it is, and a process_trades that returns
\* no trade leaves processed_trades as it is.
C18_EmptyCycleTouchesNothing ==
    [][ /\ upsertCalls' > upsertCalls =>
              upsertCalls = 0 /\ all_trades # <<>> /\ sent' = all_trades
        /\ (arPc = "save" /\ arPc' # "save" /\ trades = <<>>) =>
              table' = table /\ ~connected'
        /\ (arPc = "process" /\ arPc' = "save" /\ trades' = <<>>) =>
              processed_trades' = processed_trades
      ]_vars

\* save_trades has returned for a cycle whose slice had rows and gave no trade,
\* some identifiers being known from earlier cycles.
C18_Witness ==
    /\ arPc = "sleep"
    /\ ~df.isNone /\ df.rows # <<>>
    /\ processed_trades # {}
    /\ trades = <<>>
    /\ ~connected

====
